---- MODULE Spec2Model ----
(***************************************************************************)
(* Model of src/src/graphlet_utilities.py: the rooted graphlet enumerator  *)
(* find_all_graphlets, the rooted isomorphism checker rooted_is_isomorphic *)
(* and the subgraph extractor find_subgraphs_containing_vertex.            *)
(*                                                                         *)
(* A graph is a record [V, E]: V is the sequence of its nodes in insertion *)
(* order (networkx keeps that order), E the set of its edges, each edge a  *)
(* set {u, v} of its endpoints.                                            *)
(***************************************************************************)
EXTENDS Integers, Sequences, FiniteSets, TLC

\* The vertex identifiers calls are made with, in a fixed reference order.
VertexOrder == <<"A", "B", "C", "D">>

Vertex == {VertexOrder[k] : k \in DOMAIN VertexOrder}

\* Longest vertex list given to find_all_graphlets, and most nodes of a graph
\* given to find_subgraphs_containing_vertex.
MaxNodes == 3

\* Most nodes of a graph given to a direct call of rooted_is_isomorphic.
MaxCheckerNodes == 3

\* Most graphs and most columns asked of calculate_subplot_grid.
MaxNumGraphs == 12

MaxNumCols == 5

\* Most rows of a grid and largest index given to get_axis_for_subplot.
MaxNumRows == 3

MaxCount == 15

\* Most nodes of a complete graph given to find_subgraphs_containing_vertex.
MaxCompleteNodes == 5

Range(s) == {s[k] : k \in DOMAIN s}

\* Sequences of distinct elements of S, of length 0 .. n.
RECURSIVE DistinctSeqs(_, _)
DistinctSeqs(S, n) ==
    IF n = 0 THEN {<<>>}
    ELSE LET shorter == DistinctSeqs(S, n - 1)
         IN  shorter \cup
             UNION {{Append(s, x) : x \in S \ Range(s)} :
                    s \in {t \in shorter : Len(t) = n - 1}}

EmptyGraph == [V |-> <<>>, E |-> {}]

Nodes(g) == Range(g.V)

\* What a call ends with: a returned value or a raised exception.
Return(v) == [kind |-> "return", value |-> v, exc |-> "none"]

Raise(e) == [kind |-> "raise", value |-> "none", exc |-> e]

NoResult == [kind |-> "none", value |-> "none", exc |-> "none"]

\* itertools.combinations(s, k): the k-element subsequences of s, in
\* lexicographic order of their positions.
RECURSIVE combinations(_, _)
combinations(s, k) ==
    IF k = 0 THEN << <<>> >>
    ELSE IF Len(s) < k THEN <<>>
    ELSE LET rest == combinations(Tail(s), k - 1)
         IN  [j \in 1..Len(rest) |-> <<Head(s)>> \o rest[j]]
             \o combinations(Tail(s), k)

\* nx.Graph(); add_nodes_from(ns); add_edges_from(es).
NewGraph(ns, es) == [V |-> ns, E |-> {{es[j][1], es[j][2]} : j \in DOMAIN es}]

\* G.subgraph(ns): the subgraph induced by the nodes ns, a view that keeps
\* G's node order.
subgraph(g, ns) ==
    [V |-> SelectSeq(g.V, LAMBDA v : v \in Range(ns)),
     E |-> {e \in g.E : e \subseteq Range(ns)}]

\* The nodes reachable from the nodes in seen.
RECURSIVE Reachable(_, _)
Reachable(g, seen) ==
    LET more == seen \cup {v \in Nodes(g) : \E u \in seen : {u, v} \in g.E}
    IN  IF more = seen THEN seen ELSE Reachable(g, more)

\* nx.is_connected(g), for a graph with at least one node (it raises
\* NetworkXPointlessConcept on the graph with none).
is_connected(g) == Reachable(g, {g.V[1]}) = Nodes(g)

(***************************************************************************)
(* The isomorphism oracle, iso.GraphMatcher(g1, g2) of networkx (VF2).     *)
(* A mapping is a function from the nodes of g1 to the nodes of g2.  VF2   *)
(* extends a partial mapping one node of g1 at a time and tries the nodes  *)
(* of g2 in some order; ord, a sequence over the vertex identifiers, is    *)
(* that order, which the callers do not control.                           *)
(***************************************************************************)

Rotate(s, n) == [k \in DOMAIN s |-> s[((k + n - 1) % Len(s)) + 1]]

Reverse(s) == [k \in DOMAIN s |-> s[Len(s) + 1 - k]]

\* The orders the oracle may try candidate nodes in: the reference order
\* started at any vertex, forwards or backwards.
OracleOrders ==
    {Rotate(VertexOrder, n) : n \in 0..(Len(VertexOrder) - 1)}
      \cup {Reverse(Rotate(VertexOrder, n)) : n \in 0..(Len(VertexOrder) - 1)}

\* core[k] is the image of g1.V[k]. Whether g1.V[Len(core) + 1] may be
\* mapped to c: c is not taken, and edges, non-edges and self-loops agree
\* with the nodes mapped so far.
Feasible(g1, g2, core, c) ==
    LET u == g1.V[Len(core) + 1]
        ext == Append(core, c)
    IN  /\ c \in Nodes(g2)
        /\ c \notin Range(core)
        /\ \A k \in DOMAIN ext :
               ({g1.V[k], u} \in g1.E) <=> ({ext[k], c} \in g2.E)

RECURSIVE Match(_, _, _, _)
RECURSIVE MatchEach(_, _, _, _, _)
\* GraphMatcher.match(): the complete mappings that extend core, in the
\* order they are yielded.
Match(g1, g2, core, ord) ==
    IF Len(core) = Len(g2.V)
    THEN << [v \in {g1.V[k] : k \in DOMAIN core} |->
                core[CHOOSE k \in DOMAIN core : g1.V[k] = v]] >>
    ELSE IF Len(core) = Len(g1.V) THEN <<>>
    ELSE MatchEach(g1, g2, core,
                   SelectSeq(ord, LAMBDA c : Feasible(g1, g2, core, c)), ord)

MatchEach(g1, g2, core, cands, ord) ==
    IF cands = <<>> THEN <<>>
    ELSE Match(g1, g2, Append(core, Head(cands)), ord)
         \o MatchEach(g1, g2, core, Tail(cands), ord)

\* GM.isomorphisms_iter(): every isomorphism from g1 to g2, as a sequence.
isomorphisms_iter(g1, g2, ord) == Match(g1, g2, <<>>, ord)

degree(g, v) == Cardinality({e \in g.E : v \in e}) + (IF {v} \in g.E THEN 1 ELSE 0)

\* GM.is_isomorphic(): the node counts agree, the sorted degree sequences
\* agree, and there is a first isomorphism.
is_isomorphic(g1, g2, ord) ==
    /\ Len(g1.V) = Len(g2.V)
    /\ \A d \in 0..(Len(g1.V) + 1) :
           Cardinality({v \in Nodes(g1) : degree(g1, v) = d})
             = Cardinality({v \in Nodes(g2) : degree(g2, v) = d})
    /\ isomorphisms_iter(g1, g2, ord) # <<>>

\* A changed loop: the answer is taken from the first mapping alone.
RootFixingLoop_firstOnly(mappings, r) ==
    IF mappings = <<>> THEN Return(FALSE)
    ELSE IF r \notin DOMAIN Head(mappings) THEN Raise("KeyError")
    ELSE Return(Head(mappings)[r] = r)

\* The loop of rooted_is_isomorphic over the mappings: mapping[root] raises
\* KeyError when root is no node of g1.
RECURSIVE RootFixingLoop(_, _)
RootFixingLoop(mappings, r) ==
    IF mappings = <<>> THEN Return(FALSE)
    ELSE IF r \notin DOMAIN Head(mappings) THEN Raise("KeyError")
    ELSE IF Head(mappings)[r] = r THEN Return(TRUE)
    ELSE RootFixingLoop(Tail(mappings), r)

\* A changed checker: the root is not looked at.
rooted_is_isomorphic_unrooted(g1, g2, r, ord) == Return(is_isomorphic(g1, g2, ord))

\* rooted_is_isomorphic(g1, g2, r), with the oracle trying nodes in order ord.
rooted_is_isomorphic(g1, g2, r, ord) ==
    IF is_isomorphic(g1, g2, ord)
    THEN RootFixingLoop(isomorphisms_iter(g1, g2, ord), r)
    ELSE Return(FALSE)

\* possible_edges of find_all_graphlets.
possible_edges(ns) == combinations(ns, 2)

RECURSIVE Pow2(_)
Pow2(n) == IF n = 0 THEN 1 ELSE 2 * Pow2(n - 1)

\* [possible_edges[j] for j in range(len(possible_edges)) if (i >> j) & 1]
EdgesOfMask(pe, mask) ==
    LET idx == SelectSeq([k \in 1..Len(pe) |-> k],
                         LAMBDA k : (mask \div Pow2(k - 1)) % 2 = 1)
    IN  [k \in 1..Len(idx) |-> pe[idx[k]]]

(***************************************************************************)
(* The state: which function is running and where (pc), its arguments and  *)
(* its local variables, named as in the source, and what it ended with.    *)
(***************************************************************************)
VARIABLES
    fn,             \* the function called, "none" before the call
    pc,             \* "idle", a position in the running function, or "done"
    nodes, root,    \* find_all_graphlets(nodes, root); root also of the checker
    i,              \* the edge-subset bitmask of the generation loop
    all_graphs,     \* the connected graphs generated so far
    unique_graphs,  \* the representatives accepted so far
    gi, hi,         \* positions of G in all_graphs and of H in unique_graphs
    calls,          \* the pairs <<gi, hi>> rooted_is_isomorphic was called on
    G1, G2,         \* rooted_is_isomorphic(G1, G2, root)
    G, size, vertex,\* find_subgraphs_containing_vertex(G, size, vertex)
    ci,             \* position in combinations(G.nodes(), size)
    subgraphs,      \* the subgraphs collected so far
    num_graphs,     \* calculate_subplot_grid(num_graphs, num_cols)
    num_cols,       \* also get_axis_for_subplot(count, num_rows, num_cols)
    count, num_rows,
    result          \* what the call returned or raised

vars == <<fn, pc, nodes, root, i, all_graphs, unique_graphs, gi, hi, calls,
          G1, G2, G, size, vertex, ci, subgraphs,
          num_graphs, num_cols, count, num_rows, result>>

enumeratorVars == <<nodes, i, all_graphs, unique_graphs, gi, hi, calls>>

checkerVars == <<G1, G2>>

extractorVars == <<G, size, vertex, ci, subgraphs>>

gridVars == <<num_graphs, num_cols, count, num_rows>>

Init ==
    /\ fn = "none"
    /\ pc = "idle"
    /\ nodes = <<>>
    /\ root = "none"
    /\ i = 0
    /\ all_graphs = <<>>
    /\ unique_graphs = <<>>
    /\ gi = 0
    /\ hi = 0
    /\ calls = <<>>
    /\ G1 = EmptyGraph
    /\ G2 = EmptyGraph
    /\ G = EmptyGraph
    /\ size = 0
    /\ vertex = "none"
    /\ ci = 0
    /\ subgraphs = <<>>
    /\ num_graphs = 0
    /\ num_cols = 0
    /\ count = 0
    /\ num_rows = 0
    /\ result = NoResult

(***************************************************************************)
(* find_all_graphlets(nodes, root)                                         *)
(***************************************************************************)

\* A changed filter: every generated graph is kept.
KeepIfConnected_unfiltered(graphs, g) == Append(graphs, g)

\* if nx.is_connected(G): all_graphs.append(G)
KeepIfConnected(graphs, g) ==
    IF is_connected(g) THEN Append(graphs, g) ELSE graphs

\* The call, with a list of distinct vertices and any root.
CallFindAllGraphlets ==
    /\ UNCHANGED gridVars
    /\ pc = "idle"
    /\ fn' = "find_all_graphlets"
    /\ \E ns \in DistinctSeqs(Vertex, MaxNodes), r \in Vertex :
           /\ nodes' = ns
           /\ root' = r
    /\ calls' = <<>>
    /\ i' = 0
    /\ all_graphs' = <<>>
    /\ unique_graphs' = <<>>
    /\ pc' = "generate"
    /\ UNCHANGED <<gi, hi, checkerVars, extractorVars, result>>

\* One turn of the generation loop: the graph of bitmask i is built and kept
\* when connected. is_connected raises on a graph without nodes.
GenerateGraph ==
    /\ UNCHANGED gridVars
    /\ UNCHANGED calls
    /\ pc = "generate"
    /\ UNCHANGED fn
    /\ i < Pow2(Len(possible_edges(nodes)))
    /\ LET g == NewGraph(nodes, EdgesOfMask(possible_edges(nodes), i))
       IN  IF Len(g.V) = 0
           THEN /\ result' = Raise("NetworkXPointlessConcept")
                /\ pc' = "done"
                /\ UNCHANGED <<i, all_graphs>>
           ELSE /\ all_graphs' = KeepIfConnected(all_graphs, g)
                /\ i' = i + 1
                /\ UNCHANGED <<pc, result>>
    /\ UNCHANGED <<nodes, root, unique_graphs, gi, hi, checkerVars, extractorVars>>

\* The generation loop ends; the deduplication loop starts at the first graph.
GenerateDone ==
    /\ UNCHANGED gridVars
    /\ UNCHANGED calls
    /\ pc = "generate"
    /\ UNCHANGED fn
    /\ i = Pow2(Len(possible_edges(nodes)))
    /\ pc' = "dedup"
    /\ gi' = 1
    /\ hi' = 1
    /\ UNCHANGED <<nodes, root, i, all_graphs, unique_graphs, checkerVars,
                   extractorVars, result>>

\* A changed comparison: G is compared with one representative only, and
\* appended as soon as that one does not match.
CompareWithRepresentative_firstOnly ==
    /\ UNCHANGED gridVars
    /\ pc = "dedup"
    /\ calls' = Append(calls, <<gi, hi>>)
    /\ gi <= Len(all_graphs)
    /\ hi <= Len(unique_graphs)
    /\ \E r \in {rooted_is_isomorphic(all_graphs[gi], unique_graphs[hi], root, ord) :
                   ord \in OracleOrders} :
             IF r.kind = "raise"
             THEN /\ result' = r
                  /\ pc' = "done"
                  /\ UNCHANGED <<gi, hi, unique_graphs>>
             ELSE /\ unique_graphs' = IF r.value THEN unique_graphs
                                      ELSE Append(unique_graphs, all_graphs[gi])
                  /\ gi' = gi + 1
                  /\ hi' = 1
                  /\ UNCHANGED <<pc, result>>
    /\ UNCHANGED <<fn, nodes, root, i, all_graphs, checkerVars, extractorVars>>

\* any(...) evaluates rooted_is_isomorphic(G, H, root) for the next H: a true
\* answer ends any() and G is dropped, a false one moves to the next H, an
\* exception ends the call.
CompareWithRepresentative ==
    /\ UNCHANGED gridVars
    /\ pc = "dedup"
    /\ calls' = Append(calls, <<gi, hi>>)
    /\ UNCHANGED fn
    /\ gi <= Len(all_graphs)
    /\ hi <= Len(unique_graphs)
    /\ \E r \in {rooted_is_isomorphic(all_graphs[gi], unique_graphs[hi], root, ord) :
                   ord \in OracleOrders} :
             IF r.kind = "raise"
             THEN /\ result' = r
                  /\ pc' = "done"
                  /\ UNCHANGED <<gi, hi>>
             ELSE IF r.value
             THEN /\ gi' = gi + 1
                  /\ hi' = 1
                  /\ UNCHANGED <<pc, result>>
             ELSE /\ hi' = hi + 1
                  /\ UNCHANGED <<gi, pc, result>>
    /\ UNCHANGED <<nodes, root, i, all_graphs, unique_graphs, checkerVars,
                   extractorVars>>

\* any(...) ran out of representatives without a match: G is appended.
AppendRepresentative ==
    /\ UNCHANGED gridVars
    /\ UNCHANGED calls
    /\ pc = "dedup"
    /\ UNCHANGED fn
    /\ gi <= Len(all_graphs)
    /\ hi > Len(unique_graphs)
    /\ unique_graphs' = Append(unique_graphs, all_graphs[gi])
    /\ gi' = gi + 1
    /\ hi' = 1
    /\ UNCHANGED <<pc, nodes, root, i, all_graphs, checkerVars, extractorVars,
                   result>>

\* return unique_graphs
ReturnGraphlets ==
    /\ UNCHANGED gridVars
    /\ UNCHANGED calls
    /\ pc = "dedup"
    /\ UNCHANGED fn
    /\ gi > Len(all_graphs)
    /\ result' = Return(unique_graphs)
    /\ pc' = "done"
    /\ UNCHANGED <<nodes, root, i, all_graphs, unique_graphs, gi, hi,
                   checkerVars, extractorVars>>

NextEnumerator ==
    \/ CallFindAllGraphlets
    \/ GenerateGraph
    \/ GenerateDone
    \/ CompareWithRepresentative
    \/ AppendRepresentative
    \/ ReturnGraphlets

SpecEnumerator == Init /\ [][NextEnumerator]_vars

(***************************************************************************)
(* rooted_is_isomorphic(G1, G2, root), called directly                     *)
(***************************************************************************)

\* The simple graphs with the nodes ns: any set of edges between distinct
\* nodes.
GraphsOn(ns) ==
    {[V |-> ns, E |-> es] :
        es \in SUBSET {e \in SUBSET Range(ns) : Cardinality(e) = 2}}

CallRootedIsIsomorphic ==
    /\ UNCHANGED gridVars
    /\ pc = "idle"
    /\ fn' = "rooted_is_isomorphic"
    /\ \E S1 \in SUBSET Vertex, S2 \in SUBSET Vertex :
           /\ Cardinality(S1) <= MaxCheckerNodes
           /\ Cardinality(S2) <= MaxCheckerNodes
           /\ G1' \in GraphsOn(SelectSeq(VertexOrder, LAMBDA v : v \in S1))
           /\ G2' \in GraphsOn(SelectSeq(VertexOrder, LAMBDA v : v \in S2))
    /\ root' \in Vertex
    /\ pc' = "check"
    /\ UNCHANGED <<enumeratorVars, extractorVars, result>>

\* The body of rooted_is_isomorphic, with the oracle's order its own choice.
RunRootedIsIsomorphic ==
    /\ UNCHANGED gridVars
    /\ pc = "check"
    /\ UNCHANGED fn
    /\ \E ord \in OracleOrders :
           result' = rooted_is_isomorphic(G1, G2, root, ord)
    /\ pc' = "done"
    /\ UNCHANGED <<root, enumeratorVars, checkerVars, extractorVars>>

NextChecker ==
    \/ CallRootedIsIsomorphic
    \/ RunRootedIsIsomorphic

SpecChecker == Init /\ [][NextChecker]_vars

(***************************************************************************)
(* find_subgraphs_containing_vertex(G, size, vertex)                       *)
(***************************************************************************)

CallFindSubgraphs ==
    /\ UNCHANGED gridVars
    /\ pc = "idle"
    /\ fn' = "find_subgraphs_containing_vertex"
    /\ \E ns \in DistinctSeqs(Vertex, MaxNodes) : G' \in GraphsOn(ns)
    /\ size' \in 0..(MaxNodes + 1)
    /\ vertex' \in Vertex
    /\ ci' = 1
    /\ subgraphs' = <<>>
    /\ pc' = "extract"
    /\ UNCHANGED <<root, enumeratorVars, checkerVars, result>>

\* The integer node k of a complete graph, written as an identifier.
NodeName(k) == <<"0", "1", "2", "3", "4", "5", "6", "7">>[k + 1]

\* nx.complete_graph(n): the nodes 0 .. n-1, every two of them adjacent.
complete_graph(n) ==
    [V |-> [k \in 1..n |-> NodeName(k - 1)],
     E |-> {e \in SUBSET {NodeName(k) : k \in 0..(n - 1)} : Cardinality(e) = 2}]

\* The call on a complete graph, as the tests and the docstring make it; the
\* vertex n is not a node of the graph.
CallFindSubgraphsComplete ==
    /\ UNCHANGED gridVars
    /\ pc = "idle"
    /\ fn' = "find_subgraphs_containing_vertex"
    /\ \E n \in 0..MaxCompleteNodes :
           /\ G' = complete_graph(n)
           /\ size' \in 0..(n + 1)
           /\ vertex' \in {NodeName(k) : k \in 0..n}
    /\ ci' = 1
    /\ subgraphs' = <<>>
    /\ pc' = "extract"
    /\ UNCHANGED <<root, enumeratorVars, checkerVars, result>>

\* A changed loop body: combinations without the vertex are not skipped.
CollectSubgraph_anyVertex(sgs, g, ns, v) ==
    LET sg == subgraph(g, ns)
    IN  IF Len(sg.V) <= 1 \/ is_connected(sg) THEN Append(sgs, sg) ELSE sgs

\* A changed loop body: the induced subgraph is kept whether connected or not.
CollectSubgraph_unconnected(sgs, g, ns, v) ==
    IF v \notin Range(ns) THEN sgs ELSE Append(sgs, subgraph(g, ns))

\* The body of the loop: a combination without the vertex is skipped, the
\* induced subgraph of another is kept when it has one node or is connected.
CollectSubgraph(sgs, g, ns, v) ==
    IF v \notin Range(ns) THEN sgs
    ELSE LET sg == subgraph(g, ns)
         IN  IF Len(sg.V) = 1 \/ is_connected(sg) THEN Append(sgs, sg) ELSE sgs

\* One turn of the loop over combinations(G.nodes(), size).
ExamineCombination ==
    /\ UNCHANGED gridVars
    /\ pc = "extract"
    /\ UNCHANGED fn
    /\ ci <= Len(combinations(G.V, size))
    /\ LET ns == combinations(G.V, size)[ci]
       IN  subgraphs' = CollectSubgraph(subgraphs, G, ns, vertex)
    /\ ci' = ci + 1
    /\ UNCHANGED <<pc, G, size, vertex, root, enumeratorVars, checkerVars, result>>

\* return subgraphs
ReturnSubgraphs ==
    /\ UNCHANGED gridVars
    /\ pc = "extract"
    /\ UNCHANGED fn
    /\ ci > Len(combinations(G.V, size))
    /\ result' = Return(subgraphs)
    /\ pc' = "done"
    /\ UNCHANGED <<root, enumeratorVars, checkerVars, extractorVars>>

NextExtractor ==
    \/ CallFindSubgraphs
    \/ CallFindSubgraphsComplete
    \/ ExamineCombination
    \/ ReturnSubgraphs

SpecExtractor == Init /\ [][NextExtractor]_vars

(***************************************************************************)
(* calculate_subplot_grid(num_graphs, num_cols) and                        *)
(* get_axis_for_subplot(count, num_rows, num_cols)                         *)
(***************************************************************************)

\* Python's None.
None == "None"

min(a, b) == IF a <= b THEN a ELSE b

\* A changed rounding: the quotient is rounded down.
ceil_roundedDown(a, b) == IF b > 0 THEN a \div b ELSE (0 - a) \div (0 - b)

\* int(np.ceil(a / b)) for b # 0: the quotient of the two integers, exact at
\* these sizes, rounded up.
ceil(a, b) == IF b > 0 THEN 0 - ((0 - a) \div b) ELSE 0 - (a \div (0 - b))

\* int(np.floor(a / b)) for b # 0.
floor(a, b) == IF b > 0 THEN a \div b ELSE (0 - a) \div (0 - b)

\* a % b of Python for b # 0: the remainder has the sign of b.
mod(a, b) == IF b > 0 THEN a % b ELSE 0 - ((0 - a) % (0 - b))

\* The body of calculate_subplot_grid; the division raises when actual_cols
\* is 0, that is when num_graphs is.
calculate_subplot_grid(ng, nc) ==
    IF nc < 1 THEN Raise("ValueError")
    ELSE LET actual_cols == min(nc, ng)
         IN  IF actual_cols = 0 THEN Raise("ZeroDivisionError")
             ELSE Return(<<ceil(ng, actual_cols), actual_cols>>)

\* A changed mapping: the cells are numbered down the columns.
get_axis_for_subplot_columnMajor(c, nr, nc) ==
    IF nr = 1 /\ nc = 1
    THEN Return([access_type |-> "gca", axis_index |-> None])
    ELSE IF nr = 1 /\ nc > 1
    THEN Return([access_type |-> "col", axis_index |-> floor(c, nc)])
    ELSE IF nc = 0 \/ nr = 0 THEN Raise("ZeroDivisionError")
    ELSE Return([access_type |-> "cell",
                 axis_index |-> <<mod(c, nr), floor(c, nr)>>])

\* The body of get_axis_for_subplot; count % num_cols raises when num_cols
\* is 0.
get_axis_for_subplot(c, nr, nc) ==
    IF nr = 1 /\ nc = 1
    THEN Return([access_type |-> "gca", axis_index |-> None])
    ELSE IF nr = 1 /\ nc > 1
    THEN Return([access_type |-> "col", axis_index |-> mod(c, nc)])
    ELSE IF nc = 0 THEN Raise("ZeroDivisionError")
    ELSE Return([access_type |-> "cell",
                 axis_index |-> <<floor(c, nc), mod(c, nc)>>])

CallCalculateSubplotGrid ==
    /\ pc = "idle"
    /\ fn' = "calculate_subplot_grid"
    /\ num_graphs' \in -1..MaxNumGraphs
    /\ num_cols' \in -1..MaxNumCols
    /\ pc' = "grid"
    /\ UNCHANGED <<root, enumeratorVars, checkerVars, extractorVars, count,
                   num_rows, result>>

RunCalculateSubplotGrid ==
    /\ pc = "grid"
    /\ result' = calculate_subplot_grid(num_graphs, num_cols)
    /\ pc' = "done"
    /\ UNCHANGED <<fn, root, enumeratorVars, checkerVars, extractorVars,
                   gridVars>>

CallGetAxisForSubplot ==
    /\ pc = "idle"
    /\ fn' = "get_axis_for_subplot"
    /\ count' \in -1..MaxCount
    /\ num_rows' \in 0..MaxNumRows
    /\ num_cols' \in -1..MaxNumCols
    /\ pc' = "axis"
    /\ UNCHANGED <<root, enumeratorVars, checkerVars, extractorVars,
                   num_graphs, result>>

RunGetAxisForSubplot ==
    /\ pc = "axis"
    /\ result' = get_axis_for_subplot(count, num_rows, num_cols)
    /\ pc' = "done"
    /\ UNCHANGED <<fn, root, enumeratorVars, checkerVars, extractorVars,
                   gridVars>>

NextGrid ==
    \/ CallCalculateSubplotGrid
    \/ RunCalculateSubplotGrid
    \/ CallGetAxisForSubplot
    \/ RunGetAxisForSubplot

SpecGrid == Init /\ [][NextGrid]_vars

Next ==
    \/ NextEnumerator
    \/ NextChecker
    \/ NextExtractor
    \/ NextGrid

Spec == Init /\ [][Next]_vars

(***************************************************************************)
(* The notions the properties are stated in, defined without the code's    *)
(* operators.                                                              *)
(***************************************************************************)

\* g is connected: every split of its nodes in two parts has an edge across.
Connected(g) ==
    /\ Nodes(g) # {}
    /\ \A S \in SUBSET Nodes(g) :
           (S # {} /\ S # Nodes(g)) =>
               \E e \in g.E : e \cap S # {} /\ e \ S # {}

\* The adjacency-preserving bijections from the nodes of g1 to those of g2.
Isomorphisms(g1, g2) ==
    {f \in [Nodes(g1) -> Nodes(g2)] :
        /\ \A u, v \in Nodes(g1) : u # v => f[u] # f[v]
        /\ \A w \in Nodes(g2) : \E u \in Nodes(g1) : f[u] = w
        /\ \A u, v \in Nodes(g1) : ({u, v} \in g1.E) <=> ({f[u], f[v]} \in g2.E)}

\* Some isomorphism from g1 to g2 maps r to r.
RootFixingIsomorphic(g1, g2, r) ==
    /\ r \in Nodes(g1)
    /\ \E f \in Isomorphisms(g1, g2) : f[r] = r

\* The subgraph of g induced by the node set S.
Induced(g, S) ==
    [V |-> SelectSeq(g.V, LAMBDA v : v \in S), E |-> {e \in g.E : e \subseteq S}]

EnumeratorDone == fn = "find_all_graphlets" /\ pc = "done"

CheckerDone == fn = "rooted_is_isomorphic" /\ pc = "done"

ExtractorDone == fn = "find_subgraphs_containing_vertex" /\ pc = "done"

PathABC == [V |-> <<"A", "B", "C">>, E |-> {{"A", "B"}, {"B", "C"}}]

PathACB == [V |-> <<"A", "B", "C">>, E |-> {{"A", "C"}, {"C", "B"}}]

(***************************************************************************)
(* The properties                                                          *)
(***************************************************************************)

\* C1: completeness of find_all_graphlets. For a non-empty list of distinct
\* vertices and a root in the list, the call returns a list, and every
\* connected graph on the vertex set is root-fixed-isomorphic to exactly one
\* graph of that list.
C1_Completeness ==
    (EnumeratorDone /\ nodes # <<>> /\ root \in Range(nodes)) =>
        /\ result.kind = "return"
        /\ \A g \in GraphsOn(nodes) :
               Connected(g) =>
                   Cardinality({k \in DOMAIN result.value :
                       RootFixingIsomorphic(g, result.value[k], root)}) = 1

\* A call on three vertices has ended: four connected graphs were generated
\* and three of them returned, one standing for two.
C1_Witness ==
    /\ EnumeratorDone
    /\ Len(nodes) = 3
    /\ root \in Range(nodes)
    /\ result.kind = "return"
    /\ Len(all_graphs) = 4
    /\ Len(result.value) = 3

\* C2: pairwise rooted non-isomorphism. For any two graphs at different
\* places of the returned list, rooted_is_isomorphic returns false, in both
\* argument orders and whatever order the oracle works in.
C2_PairwiseNonIsomorphic ==
    (EnumeratorDone /\ result.kind = "return") =>
        \A j, k \in DOMAIN result.value :
            j # k =>
                \A ord \in OracleOrders :
                    /\ rooted_is_isomorphic(result.value[j], result.value[k],
                                            root, ord) = Return(FALSE)
                    /\ rooted_is_isomorphic(result.value[k], result.value[j],
                                            root, ord) = Return(FALSE)

\* A returned list holds two graphs that are isomorphic as unrooted graphs
\* (the two paths, the root in the middle of one and at an end of the other).
C2_Witness ==
    /\ EnumeratorDone
    /\ result.kind = "return"
    /\ \E j, k \in DOMAIN result.value :
           j # k /\ Isomorphisms(result.value[j], result.value[k]) # {}

C7_RootOutsideListFails ==
    (EnumeratorDone /\ nodes # <<>> /\ root \notin Range(nodes)) =>
        result = Raise("InvalidArgument")

\* C8: when the root is missing from G1 or from G2, rooted_is_isomorphic
\* fails with InvalidArgument.
C8_MissingRootFails ==
    (CheckerDone /\ (root \notin Nodes(G1) \/ root \notin Nodes(G2))) =>
        result = Raise("InvalidArgument")

\* C9: when G1 and G2 have different numbers of vertices,
\* rooted_is_isomorphic fails with ComparisonFailed.
C9_SizeMismatchFails ==
    (CheckerDone /\ Len(G1.V) # Len(G2.V)) =>
        result = Raise("ComparisonFailed")

RECURSIVE Binomial(_, _)
Binomial(n, k) ==
    IF k < 0 \/ k > n THEN 0
    ELSE IF k = 0 THEN 1
    ELSE Binomial(n - 1, k - 1) + Binomial(n - 1, k)

\* G is the complete graph on the nodes 0 .. n-1.
IsComplete(n) == G = complete_graph(n)

AllCandidatesDisconnected ==
    \A S \in SUBSET Nodes(G) :
        (Cardinality(S) = size /\ vertex \in S) => ~Connected(Induced(G, S))

\* C13: the call returns the empty list, and raises nothing, when the size
\* exceeds the number of nodes of G, when the vertex is no node of G, and
\* when every set of size nodes with the vertex induces a disconnected
\* subgraph.
C13_EmptyResults ==
    (ExtractorDone /\ (\/ size > Len(G.V)
                       \/ vertex \notin Nodes(G)
                       \/ AllCandidatesDisconnected)) =>
        result = Return(<<>>)

\* A call with a vertex of G and a size G has, where sets of that size with
\* the vertex exist and none is connected, has returned the empty list.
C13_Witness ==
    /\ ExtractorDone
    /\ vertex \in Nodes(G)
    /\ size >= 2 /\ size <= Len(G.V)
    /\ AllCandidatesDisconnected
    /\ result = Return(<<>>)

\* The loop of find_all_graphlets is about to compare G with the next H.
AtComparison ==
    /\ fn = "find_all_graphlets"
    /\ pc = "dedup"
    /\ gi <= Len(all_graphs)
    /\ hi <= Len(unique_graphs)

\* C14: determinism of find_all_graphlets. Whatever order the oracle
\* enumerates its mappings in, each comparison the deduplication loop makes
\* has the same outcome; every other step of a call is a function of the
\* state, so a call on (nodes, root) has one course and one returned list.
C14_OrderIndependent ==
    AtComparison =>
        {rooted_is_isomorphic(all_graphs[gi], unique_graphs[hi], root, ord) :
            ord \in OracleOrders}
          = {rooted_is_isomorphic(all_graphs[gi], unique_graphs[hi], root,
                                  VertexOrder)}

\* A comparison, with the root in the list, for which two orders of the
\* oracle yield the mappings in different sequences, the first mapping
\* fixing the root under one order and not under the other.
C14_Witness ==
    /\ AtComparison
    /\ root \in Range(nodes)
    /\ \E o1, o2 \in OracleOrders :
         LET m1 == isomorphisms_iter(all_graphs[gi], unique_graphs[hi], o1)
             m2 == isomorphisms_iter(all_graphs[gi], unique_graphs[hi], o2)
         IN  /\ m1 # <<>> /\ m2 # <<>>
             /\ m1[1][root] = root
             /\ m2[1][root] # root

\* The place in all_graphs of the representative unique_graphs[k].
PlaceOf(k) == CHOOSE g \in DOMAIN all_graphs : all_graphs[g] = unique_graphs[k]

\* The number of representatives accepted before the candidate all_graphs[g].
AcceptedBefore(g) == Cardinality({k \in DOMAIN unique_graphs : PlaceOf(k) < g})

\* The calls are made in order: by candidate, then by representative.
CallsInOrder ==
    \A a \in 1..(Len(calls) - 1) :
        \/ calls[a][1] < calls[a + 1][1]
        \/ calls[a][1] = calls[a + 1][1] /\ calls[a][2] < calls[a + 1][2]

\* C17 as stated: the checker is called once per (candidate, already
\* accepted representative) pair, each connected candidate being compared
\* with every representative accepted before it.
C17_EveryEarlierRepresentative ==
    (EnumeratorDone /\ result.kind = "return") =>
        /\ CallsInOrder
        /\ Range(calls) = {c \in (DOMAIN all_graphs) \X (DOMAIN unique_graphs) :
                              c[2] <= AcceptedBefore(c[1])}

\* The last representative the candidate all_graphs[g] is compared with: the
\* first one accepted before it that it is root-fixed-isomorphic to, and the
\* last one accepted before it when there is none.
LastCompared(g) ==
    LET matching == {h \in 1..AcceptedBefore(g) :
                        RootFixingIsomorphic(all_graphs[g], unique_graphs[h], root)}
    IN  IF matching = {} THEN AcceptedBefore(g)
        ELSE CHOOSE h \in matching : \A h2 \in matching : h <= h2

\* C17 as amended: the checker is called at most once per (candidate,
\* already accepted representative) pair; each connected candidate is
\* compared with the representatives accepted before it in the order of
\* their acceptance, up to and including the first one that matches, and
\* with all of them when none matches.
C17_UpToFirstMatch ==
    (EnumeratorDone /\ result.kind = "return" /\ root \in Range(nodes)) =>
        /\ CallsInOrder
        /\ \A g \in DOMAIN all_graphs :
               {c[2] : c \in {d \in Range(calls) : d[1] = g}} = 1..LastCompared(g)
        /\ \A c \in Range(calls) : c[1] \in DOMAIN all_graphs

\* A call has returned in which some candidate matched a representative
\* that was not the last one accepted before it, so that later ones were
\* not compared with it.
C17_Witness ==
    /\ EnumeratorDone
    /\ result.kind = "return"
    /\ root \in Range(nodes)
    /\ \E g \in DOMAIN all_graphs : LastCompared(g) < AcceptedBefore(g)

\* The pairs of positions a < b of a list of n vertices: combinations(., 2)
\* lists the pair of positions p before q when p is smaller lexicographically.
PositionPairs(n) == {p \in (1..n) \X (1..n) : p[1] < p[2]}

\* The number of pairs listed before the pair p, i.e. the bit that stands
\* for p in an edge-subset bitmask.
BitOf(p, n) ==
    Cardinality({q \in PositionPairs(n) :
                    q[1] < p[1] \/ (q[1] = p[1] /\ q[2] < p[2])})

\* The graph generated for the bitmask m over the vertex list ns.
GraphOfMask(ns, m) ==
    [V |-> ns,
     E |-> {{ns[p[1]], ns[p[2]]} :
               p \in {q \in PositionPairs(Len(ns)) :
                          (m \div (2 ^ BitOf(q, Len(ns)))) % 2 = 1}}]

\* The last bitmask over the vertex list ns.
LastMask(ns) == 2 ^ Cardinality(PositionPairs(Len(ns))) - 1

\* The list value holds, in ascending bitmask order, exactly the first
\* connected graph of each rooted-isomorphism class: its graphs are generated
\* ones with ascending bitmasks, and every connected graph has a graph of its
\* class in the list, none of them generated after it.
FirstOfClassInOrder(ns, r, value) ==
    /\ \A k \in DOMAIN value :
           \E m \in 0..LastMask(ns) : GraphOfMask(ns, m) = value[k]
    /\ LET mask == [k \in DOMAIN value |->
                       CHOOSE m \in 0..LastMask(ns) :
                           GraphOfMask(ns, m) = value[k]]
       IN  /\ \A k \in 1..(Len(value) - 1) : mask[k] < mask[k + 1]
           /\ \A m \in 0..LastMask(ns) :
                  LET g == GraphOfMask(ns, m)
                      same == {k \in DOMAIN value :
                                  /\ Cardinality(value[k].E) = Cardinality(g.E)
                                  /\ RootFixingIsomorphic(value[k], g, r)}
                  IN  Connected(g) =>
                          /\ same # {}
                          /\ \A k \in same : mask[k] <= m

\* The sequence u is kept as the beginning of the sequence w.
IsPrefix(u, w) ==
    /\ Len(u) <= Len(w)
    /\ \A k \in 1..Len(u) : w[k] = u[k]

\* C18: the representative find_all_graphlets returns for each
\* rooted-isomorphism class is the first connected graph of the class in
\* ascending bitmask order over combinations(vertices, 2), the returned list
\* is in that same order, and every step of a call keeps the representatives
\* appended so far, in their places.
C18_FirstOfClassInOrder ==
    [][/\ IsPrefix(unique_graphs, unique_graphs')
       /\ (fn' = "find_all_graphlets" /\ pc' = "done"
              /\ result'.kind = "return" /\ root' \in Range(nodes')) =>
             FirstOfClassInOrder(nodes', root', result'.value)]_vars

\* A call on three vertices has returned its representatives, and a later
\* connected graph of the class of one of them was generated and left out.
C18_Witness ==
    /\ EnumeratorDone
    /\ result.kind = "return"
    /\ root \in Range(nodes)
    /\ Len(nodes) = 3
    /\ \E k \in DOMAIN result.value, g \in DOMAIN all_graphs :
           /\ g > PlaceOf(k)
           /\ all_graphs[g] \notin Range(result.value)
           /\ RootFixingIsomorphic(result.value[k], all_graphs[g], root)

\* The graphs rooted_is_isomorphic is called on.
CheckerGraphs ==
    UNION {GraphsOn(SelectSeq(VertexOrder, LAMBDA v : v \in S)) :
              S \in {T \in SUBSET Vertex : Cardinality(T) <= MaxCheckerNodes}}

\* C19: for a fixed root, rooted_is_isomorphic is an equivalence relation on
\* the graphs that contain the root: it is true of a graph and itself, it
\* gives the same answer with its two graphs exchanged, and when it is true
\* of (G1, G2) and of (G2, K) it is true of (G1, K). The call that has run
\* took any order of the oracle's mappings; the calls it is compared with
\* take the order of the vertices.
C19_EquivalenceRelation ==
    (CheckerDone /\ root \in Nodes(G1) /\ root \in Nodes(G2)) =>
        /\ (G1 = G2) => result = Return(TRUE)
        /\ rooted_is_isomorphic(G2, G1, root, VertexOrder) = result
        /\ (result = Return(TRUE)) =>
               \A K \in CheckerGraphs :
                   (/\ root \in Nodes(K)
                    /\ rooted_is_isomorphic(G2, K, root, VertexOrder) = Return(TRUE))
                     => rooted_is_isomorphic(G1, K, root, VertexOrder) = Return(TRUE)

\* Two different graphs containing the root were found rooted-isomorphic,
\* and a third graph, different from both, is rooted-isomorphic to the
\* second.
C19_Witness ==
    /\ CheckerDone
    /\ root \in Nodes(G1) /\ root \in Nodes(G2)
    /\ G1 # G2
    /\ Len(G1.V) = 3
    /\ result = Return(TRUE)
    /\ \E K \in CheckerGraphs \ {G1, G2} :
           /\ root \in Nodes(K)
           /\ rooted_is_isomorphic(G2, K, root, VertexOrder) = Return(TRUE)

GridDone == fn = "calculate_subplot_grid" /\ pc = "done"

AxisDone == fn = "get_axis_for_subplot" /\ pc = "done"

\* C15: for num_graphs >= 1 and num_cols >= 1, calculate_subplot_grid
\* returns (rows, cols) with cols the smaller of num_cols and num_graphs and
\* rows the quotient num_graphs / cols rounded up, i.e. the least number of
\* rows of cols cells that hold num_graphs: rows * cols >= num_graphs and
\* (rows - 1) * cols < num_graphs.
C15_GridDimensions ==
    (GridDone /\ num_graphs >= 1 /\ num_cols >= 1) =>
        /\ result.kind = "return"
        /\ LET rows == result.value[1]
               cols == result.value[2]
           IN  /\ cols \in {num_cols, num_graphs}
               /\ cols <= num_cols /\ cols <= num_graphs
               /\ rows * cols >= num_graphs
               /\ (rows - 1) * cols < num_graphs
               /\ \A r \in 0..num_graphs : r * cols >= num_graphs => rows <= r

\* A grid was computed whose last row is partly empty and which has fewer
\* columns in use than it has graphs.
C15_Witness ==
    /\ GridDone
    /\ num_graphs > num_cols /\ num_cols > 1
    /\ result.kind = "return"
    /\ result.value[1] * result.value[2] > num_graphs

\* The three cases of C16 that hold of every call: in a grid of more than
\* one row, a count within the grid gives the cell (row, col) of the grid
\* with row * num_cols + col = count; a 1x1 grid gives ("gca", None) whatever
\* count is.
CellAndGcaCases ==
    /\ (AxisDone /\ num_rows > 1 /\ count \in 0..(num_rows * num_cols - 1)) =>
           /\ result.kind = "return"
           /\ result.value.access_type = "cell"
           /\ LET row == result.value.axis_index[1]
                  col == result.value.axis_index[2]
              IN  /\ row * num_cols + col = count
                  /\ 0 <= row /\ row < num_rows
                  /\ 0 <= col /\ col < num_cols
    /\ (AxisDone /\ num_rows = 1 /\ num_cols = 1) =>
           result = Return([access_type |-> "gca", axis_index |-> None])

\* C16 as stated: get_axis_for_subplot maps indices to positions in
\* row-major order; in particular for num_rows = 1 and num_cols > 1 it
\* returns ("col", count).
C16_SingleRowReturnsCount ==
    /\ CellAndGcaCases
    /\ (AxisDone /\ num_rows = 1 /\ num_cols > 1) =>
           result = Return([access_type |-> "col", axis_index |-> count])

\* C16 as amended: for num_rows = 1 and num_cols > 1 it returns
\* ("col", count mod num_cols), which is count for the counts
\* 0 .. num_cols - 1 of the grid; the other cases as stated.
C16_SingleRowWraps ==
    /\ CellAndGcaCases
    /\ (AxisDone /\ num_rows = 1 /\ num_cols > 1) =>
           /\ result.kind = "return"
           /\ result.value.access_type = "col"
           /\ result.value.axis_index \in 0..(num_cols - 1)
           /\ \E q \in -1..count :
                  count = q * num_cols + result.value.axis_index
           /\ count \in 0..(num_cols - 1) => result.value.axis_index = count

\* The axis was asked for a count beyond the columns of a single row.
C16_Witness ==
    /\ AxisDone
    /\ num_rows = 1 /\ num_cols > 1
    /\ count >= num_cols
    /\ result.kind = "return"

====
